---- MODULE Spec2Model ----
(***************************************************************************)
(* Model of the two data-collection programs of the repository:           *)
(*   src/data_collection/face/face1.py   (orientation pipeline)           *)
(*   src/data_collection/leg/capture2.py (serial demultiplexer)           *)
(*                                                                         *)
(* Numbers.  Orientation values are exact rationals written as integers   *)
(* in units of 1/One: One stands for 1.0 and Cent for 0.01.  One is       *)
(* 100 * 2520 * 60, so that a sum of readings on the 0.01 grid divides    *)
(* exactly by any count 1..10 and a window sum divides exactly by any     *)
(* length 1..5.  Times are integer milliseconds.                          *)
(***************************************************************************)
EXTENDS Integers, Sequences, FiniteSets, TLC

(* ------------------------------ bounds --------------------------------- *)
MaxTime == 500            \* the clock stops advancing at this many ms
MaxSession == 4           \* length of a session: a processed frame counts 1, a calibration 2
MaxCalls == 6             \* calls of apply_moving_average in SmootherSpec
MaxLines == 3             \* serial lines delivered in LegSpec
MaxTicks == 1             \* seconds the clock of LegSpec advances
MaxLongSession == 8       \* length of a session of LongSpec

(* --------------------------- number system ----------------------------- *)
Cent == 2520 * 60
One == 100 * Cent
None == 0 - 2000000000    \* Python's None where a number is expected

Abs(x) == IF x < 0 THEN 0 - x ELSE x
Max(a, b) == IF a > b THEN a ELSE b
Min(a, b) == IF a < b THEN a ELSE b

RECURSIVE SumSeq(_)
SumSeq(s) == IF s = <<>> THEN 0 ELSE Head(s) + SumSeq(Tail(s))

VARIABLES
  pc,                     \* position of face1.main
  cap_open,               \* the camera is held (between VideoCapture and release)
  csv_exists,             \* the orientation log file has been created (header written)
  csv_rows,               \* data rows appended to the orientation log
  calibrated,
  center_offset,
  last_orientation_value,
  last_write_time,
  orientation_history,
  center_readings,
  sum_orientation,
  stdout,                 \* messages printed since the last "Starting calibration..."
  now,                    \* the clock, ms
  calibrations,           \* number of times 'c' was accepted
  frames,                 \* frames with a defined orientation processed by the main loop
  since_calibration,      \* those of them processed since calibration last returned
  display,                \* what the tracker window shows (line 329)
  session_max,            \* the length of this session (see SessionUsed)
  previous_values,        \* SmootherSpec: the window handed to apply_moving_average
  inputs,                 \* SmootherSpec: every current_value passed so far
  returned,               \* SmootherSpec: what the last call returned
  leg_pc,                 \* position of capture2.main
  ser_open,               \* the serial port is open
  files_open,             \* the two log files are open (inside the with block)
  files_exist,            \* the two log files have been created
  ecg_file,               \* data rows written to the ECG log
  imu_file,               \* data rows written to the IMU log
  ecg_disk,               \* the rows of the ECG log that have left the buffer
  imu_disk,               \* the rows of the IMU log that have left the buffer
  leg_stdout,             \* messages capture2 has printed
  ecg_count,
  imu_count,
  last_stats_time,
  stats,                  \* the counts of the last "Records collected" line printed
  skipped,                \* the lines printed as "Skipping invalid data"
  received,               \* what the last ser.readline() returned
  ecg_arrived,            \* the lines ser.readline() has returned that hold
                          \* an ECG sample, in order
  imu_arrived,            \* the same for the lines that hold an IMU sample
  delivered,              \* lines read by iterations that ran to their end or
                          \* raised (bounded by MaxLines)
  clock,                  \* the clock of capture2, ms
  shape,                  \* EstimatorSpec: the landmarks of the last call
  raw                     \* EstimatorSpec: what calculate_face_orientation returned

faceVars == <<pc, cap_open, csv_exists, csv_rows, calibrated, center_offset,
              last_orientation_value, last_write_time, orientation_history,
              center_readings, sum_orientation, stdout, now, calibrations,
              frames, since_calibration, display, session_max>>
smootherVars == <<previous_values, inputs, returned>>
legVars == <<leg_pc, ser_open, files_open, files_exist, ecg_file, imu_file,
             ecg_disk, imu_disk, leg_stdout, ecg_count, imu_count,
             last_stats_time, stats, skipped, received, ecg_arrived,
             imu_arrived, delivered, clock>>
estimatorVars == <<shape, raw>>
vars == <<faceVars, smootherVars, legVars, estimatorVars>>

\* The two programs and the smoother called alone are modelled side by side;
\* each leaves the others' state alone.
faceOnly == UNCHANGED <<smootherVars, legVars, estimatorVars>>
smootherOnly == UNCHANGED <<faceVars, legVars, estimatorVars>>
legOnly == UNCHANGED <<faceVars, smootherVars, estimatorVars>>
estimatorOnly == UNCHANGED <<faceVars, smootherVars, legVars>>

(* ----------------------- calculate_face_orientation -------------------- *)
(* A landmark set is [num_parts, p0, p16, p30]: the number of points and  *)
(* the three points the function reads, each <<x, y>> in pixels.          *)
MaxCoord == 500           \* largest pixel coordinate of the landmark sets below

\* np.linalg.norm of the difference of two points; exact when the distance
\* is integral (as it is for every landmark set in LandmarkSets), else floored.
RECURSIVE SqrtSearch(_, _, _)
SqrtSearch(n, lo, hi) ==
  IF lo >= hi THEN lo
  ELSE LET mid == (lo + hi + 1) \div 2
       IN IF mid * mid <= n THEN SqrtSearch(n, mid, hi)
          ELSE SqrtSearch(n, lo, mid - 1)
ISqrt(n) == SqrtSearch(n, 0, 2 * MaxCoord)
Norm(p, q) ==
  ISqrt((p[1] - q[1]) * (p[1] - q[1]) + (p[2] - q[2]) * (p[2] - q[2]))

\* pow(x, 0.8) for x = i/100, i in 0..100, to the nearest 0.01 (index i + 1).
Pow08 == <<0, 3, 4, 6, 8, 9, 11, 12, 13, 15, 16, 17, 18, 20, 21, 22, 23, 24,
  25, 26, 28, 29, 30, 31, 32, 33, 34, 35, 36, 37, 38, 39, 40, 41, 42, 43, 44,
  45, 46, 47, 48, 49, 50, 51, 52, 53, 54, 55, 56, 57, 57, 58, 59, 60, 61, 62,
  63, 64, 65, 66, 66, 67, 68, 69, 70, 71, 72, 73, 73, 74, 75, 76, 77, 78, 79,
  79, 80, 81, 82, 83, 84, 84, 85, 86, 87, 88, 89, 89, 90, 91, 92, 93, 94, 94,
  95, 96, 97, 98, 98, 99, 100>>

MinLandmarks == 31
MinFaceWidth_Zero == 10 - 10
MinFaceWidth == 10

Clamp_Off(x) == x

\* max(-1.0, min(1.0, x)) (lines 57 and 250)
Clamp(x) == Max(0 - One, Min(One, x))

calculate_face_orientation(landmarks_np) ==
  IF landmarks_np.num_parts < MinLandmarks THEN None
  ELSE
    LET left_face == landmarks_np.p0
        right_face == landmarks_np.p16
        nose_tip == landmarks_np.p30
        distance_to_left == Norm(nose_tip, left_face)
        distance_to_right == Norm(nose_tip, right_face)
        face_width == Norm(right_face, left_face)
        total == distance_to_left + distance_to_right
        diff == distance_to_left - distance_to_right
    IN IF face_width < MinFaceWidth THEN None
       ELSE IF total = 0
       THEN \* 0.0 / 0.0 on numpy floats is nan (a RuntimeWarning, no
            \* exception); nan fails the test of line 49, stays nan through
            \* line 54, and max(-1.0, min(1.0, nan)) is 1.0.
            One
       ELSE
         \* relative_pos - 0.5 = diff / (2 * total)
         LET orientation ==
               IF 10 * Abs(diff) < total
               THEN \* (relative_pos - 0.5) * 10 = 5 * diff / total
                    ((5 * One) \div total) * diff
               ELSE \* sign(d) * pow(|d| * 2, 0.8), |d| * 2 = |diff| / total
                    (IF diff < 0 THEN 0 - 1 ELSE 1)
                      * Pow08[((100 * Abs(diff)) \div total) + 1] * Cent
         IN Clamp(orientation)

(* --------------------------- apply_moving_average ---------------------- *)
WindowSize == 5

apply_moving_average_EvictsEarly(current_value, window, window_size) ==
  LET appended == Append(window, current_value)
      kept == IF Len(appended) >= window_size THEN Tail(appended) ELSE appended
  IN [window |-> kept, value |-> SumSeq(kept) \div Len(kept)]

\* previous_values is mutated by the call: the result is the window after
\* the call and the returned mean.
apply_moving_average(current_value, window, window_size) ==
  LET appended == Append(window, current_value)
      kept == IF Len(appended) > window_size THEN Tail(appended) ELSE appended
  IN [window |-> kept, value |-> SumSeq(kept) \div Len(kept)]

(* ------------------------------ frame source --------------------------- *)
Landmarks(n, l, r, nose) == [num_parts |-> n, p0 |-> l, p16 |-> r, p30 |-> nose]

\* Landmark sets a frame can carry; every distance in them is integral.
LandmarkSets ==
  { Landmarks(68, <<0, 0>>, <<100, 0>>, <<51, 0>>),     \* dead zone: 0.10
    Landmarks(68, <<0, 0>>, <<500, 0>>, <<259, 0>>),    \* dead zone: 0.18
    Landmarks(30, <<0, 0>>, <<100, 0>>, <<51, 0>>),     \* too few landmarks
    Landmarks(68, <<0, 0>>, <<8, 0>>, <<4, 0>>) }       \* face too narrow

\* The landmark sets of a session in which the head does not move: one
\* pose, and the ways a frame can have no orientation.
LongLandmarkSets ==
  { Landmarks(68, <<0, 0>>, <<100, 0>>, <<51, 0>>),     \* dead zone: 0.10
    Landmarks(30, <<0, 0>>, <<100, 0>>, <<51, 0>>),     \* too few landmarks
    Landmarks(68, <<0, 0>>, <<8, 0>>, <<4, 0>>),        \* face too narrow
    Landmarks(68, <<7, 7>>, <<7, 7>>, <<7, 7>>) }       \* the three points coincide

\* The landmark sets of a session in which the head swings from one extreme
\* to the other: the nose tip on the left edge and on the right edge.
ExtremeLandmarkSets ==
  { Landmarks(68, <<0, 0>>, <<100, 0>>, <<0, 0>>),      \* power law: -1.0
    Landmarks(68, <<0, 0>>, <<100, 0>>, <<100, 0>>),    \* power law: 1.0
    Landmarks(30, <<0, 0>>, <<100, 0>>, <<100, 0>>),    \* too few landmarks
    Landmarks(68, <<0, 0>>, <<8, 0>>, <<8, 0>>) }       \* face too narrow

\* What cap.read() followed by detector/predictor yields: ret, and the
\* landmark sets of the detected faces (none or one).
Frames ==
  { [ret |-> FALSE, faces |-> <<>>], [ret |-> TRUE, faces |-> <<>>] }
    \cup { [ret |-> TRUE, faces |-> <<lm>>] : lm \in LandmarkSets }
GoodFrames == { f \in Frames : f.ret }
LongFrames ==
  { [ret |-> TRUE, faces |-> <<>>] }
    \cup { [ret |-> TRUE, faces |-> <<lm>>] : lm \in LongLandmarkSets }
ExtremeFrames ==
  { [ret |-> TRUE, faces |-> <<>>] }
    \cup { [ret |-> TRUE, faces |-> <<lm>>] : lm \in ExtremeLandmarkSets }

\* The estimator's value for each landmark set (a table of the function above).
OrientationOf ==
  [lm \in LandmarkSets \cup LongLandmarkSets \cup ExtremeLandmarkSets
     |-> calculate_face_orientation(lm)]

\* len(faces) > 0, faces[0], predictor, shape_to_np, calculate_face_orientation
FrameOrientation(frame) ==
  IF Len(frame.faces) > 0 THEN OrientationOf[frame.faces[1]] ELSE None

(* ------------------------------- face1.main ---------------------------- *)
ReadingsWanted == 10
ChangeThreshold == 3 * Cent               \* 0.03
HeartbeatMs_Short == 500 - 100
HeartbeatMs == 500                        \* 0.5 s

MsgCameraError == "Error: Could not open camera."
MsgStarting == "Starting calibration..."
MsgPrompt == "Calibration: Look straight at the camera and press SPACE"
MsgOffset == "Calibration complete! Center offset"
MsgFailed == "Calibration failed, couldn't get enough readings."
MsgComplete == "Calibration complete!"
MsgRecording == "Recording to"
MsgSaved == "Face orientation data saved to"

\* f"{final_orientation:.2f}": the value to the nearest 0.01 (ties to even),
\* as an integer number of hundredths.
Format2(x) ==
  LET q == x \div Cent
      r == x - q * Cent
  IN IF 2 * r < Cent THEN q
     ELSE IF 2 * r > Cent THEN q + 1
     ELSE IF q % 2 = 0 THEN q ELSE q + 1

ShouldWrite_NoHeartbeat(final_orientation, last_value, current_time, last_time) ==
  \/ last_value = None
  \/ Abs(final_orientation - last_value) > ChangeThreshold

\* The condition of the write at line 254.
ShouldWrite(final_orientation, last_value, current_time, last_time) ==
  \/ last_value = None
  \/ Abs(final_orientation - last_value) > ChangeThreshold
  \/ current_time - last_time >= HeartbeatMs

WriteRow_StaleTime(final_orientation, current_time) ==
  /\ csv_rows' = Append(csv_rows, [timestamp |-> now,
                                   orientation |-> Format2(final_orientation)])
  /\ last_orientation_value' = final_orientation
  /\ UNCHANGED last_write_time

\* Lines 255-263: append the row and remember what was written and when.
WriteRow(final_orientation, current_time) ==
  /\ csv_rows' = Append(csv_rows, [timestamp |-> now,
                                   orientation |-> Format2(final_orientation)])
  /\ last_orientation_value' = final_orientation
  /\ last_write_time' = current_time

\* How much of the bounded session has been used.
SessionUsed == frames + 2 * calibrations

calUnchanged == UNCHANGED <<center_readings, sum_orientation>>
\* What only the processing of a frame and the return of a calibration touch.
restUnchanged == UNCHANGED <<since_calibration, display, session_max>>
gateUnchanged == UNCHANGED <<csv_rows, last_orientation_value, last_write_time>>

OpenCamera_LogFirst(opened) ==
  /\ pc = "start"
  /\ csv_exists' = TRUE
  /\ IF ~opened
     THEN /\ pc' = "exit"
          /\ stdout' = stdout \cup {MsgCameraError}
          /\ UNCHANGED <<cap_open, last_write_time>>
     ELSE /\ pc' = "main"
          /\ cap_open' = TRUE
          /\ last_write_time' = now
          /\ UNCHANGED stdout
  /\ UNCHANGED <<csv_rows, calibrated, center_offset, last_orientation_value,
                 orientation_history, now, calibrations, frames>>
  /\ calUnchanged /\ restUnchanged
  /\ faceOnly

\* Lines 174-201: open the camera; if that fails report and return, else
\* create the log with its header and initialise the session state.
OpenCamera(opened) ==
  /\ pc = "start"
  /\ IF ~opened
     THEN /\ pc' = "exit"
          /\ stdout' = stdout \cup {MsgCameraError}
          /\ UNCHANGED <<cap_open, csv_exists, last_write_time>>
     ELSE /\ pc' = "main"
          /\ cap_open' = TRUE
          /\ csv_exists' = TRUE
          /\ last_write_time' = now
          /\ UNCHANGED stdout
  /\ UNCHANGED <<csv_rows, calibrated, center_offset, last_orientation_value,
                 orientation_history, now, calibrations, frames>>
  /\ calUnchanged /\ restUnchanged
  /\ faceOnly

\* Lines 331-334: the camera is released, the windows are destroyed, the
\* place of the log is printed and main returns: its locals are gone, the
\* log stays.
LeaveMain ==
  /\ pc' = "done"
  /\ cap_open' = FALSE
  /\ display' = "nothing"
  /\ stdout' = stdout \cup {MsgSaved}
  /\ calibrated' = FALSE
  /\ center_offset' = 0
  /\ last_orientation_value' = None
  /\ last_write_time' = 0
  /\ orientation_history' = <<>>
  /\ since_calibration' = 0
  /\ UNCHANGED <<csv_exists, csv_rows, now, calibrations, frames, session_max>>
  /\ calUnchanged

\* Lines 204-206 and 331-334: the read fails, the loop ends, resources go.
MainReadFail ==
  /\ pc = "main"
  /\ LeaveMain
  /\ faceOnly

\* Lines 223-224 and 331-334: a frame is read and the key is 'q'.
MainQuit ==
  /\ pc = "main"
  /\ LeaveMain
  /\ faceOnly

MainStartCalibration_ClearsWindow ==
  /\ pc = "main"
  /\ SessionUsed + 2 <= session_max
  /\ calibrations' = calibrations + 1
  /\ pc' = "awaiting"
  /\ stdout' = {MsgStarting, MsgPrompt}
  /\ orientation_history' = <<>>
  /\ UNCHANGED <<cap_open, csv_exists, calibrated, center_offset, now, frames>>
  /\ gateUnchanged /\ calUnchanged /\ restUnchanged
  /\ faceOnly

\* Lines 215-218 and 73-75: a frame is read and the key is 'c', which enters
\* calibrate_face_orientation.
MainStartCalibration ==
  /\ pc = "main"
  /\ SessionUsed + 2 <= session_max
  /\ calibrations' = calibrations + 1
  /\ pc' = "awaiting"
  /\ stdout' = {MsgStarting, MsgPrompt}
  /\ UNCHANGED <<cap_open, csv_exists, calibrated, center_offset,
                 orientation_history, now, frames>>
  /\ gateUnchanged /\ calUnchanged /\ restUnchanged
  /\ faceOnly

MainFrame_ResetsOnLoss(frame) ==
  /\ pc = "main"
  /\ frame.ret
  /\ LET raw_orientation == FrameOrientation(frame) IN
     IF raw_orientation = None
     THEN /\ display' = "frame"
          /\ orientation_history' = <<>>
          /\ UNCHANGED <<frames, since_calibration>>
          /\ gateUnchanged
     ELSE
       LET calibrated_orientation == raw_orientation - center_offset
           smoothed == apply_moving_average(calibrated_orientation,
                                            orientation_history, WindowSize)
           final_orientation == Clamp(smoothed.value)
           current_time == now
       IN /\ SessionUsed + 1 <= session_max
          /\ frames' = frames + 1
          /\ since_calibration' = since_calibration + 1
          /\ display' = "orientation"
          /\ orientation_history' = smoothed.window
          /\ IF ShouldWrite(final_orientation, last_orientation_value,
                            current_time, last_write_time)
             THEN WriteRow(final_orientation, current_time)
             ELSE gateUnchanged
  /\ UNCHANGED <<pc, cap_open, csv_exists, calibrated, center_offset, stdout,
                 now, calibrations, session_max>>
  /\ calUnchanged
  /\ faceOnly

\* Lines 204-329 with any other key: one frame of normal operation.
MainFrame(frame) ==
  /\ pc = "main"
  /\ frame.ret
  /\ LET raw_orientation == FrameOrientation(frame) IN
     IF raw_orientation = None
     THEN /\ display' = "frame"
          /\ UNCHANGED <<orientation_history, frames, since_calibration>>
          /\ gateUnchanged
     ELSE
       LET calibrated_orientation == raw_orientation - center_offset
           smoothed == apply_moving_average(calibrated_orientation,
                                            orientation_history, WindowSize)
           final_orientation == Clamp(smoothed.value)
           current_time == now
       IN /\ SessionUsed + 1 <= session_max
          /\ frames' = frames + 1
          /\ since_calibration' = since_calibration + 1
          /\ display' = "orientation"
          /\ orientation_history' = smoothed.window
          /\ IF ShouldWrite(final_orientation, last_orientation_value,
                            current_time, last_write_time)
             THEN WriteRow(final_orientation, current_time)
             ELSE gateUnchanged
  /\ UNCHANGED <<pc, cap_open, csv_exists, calibrated, center_offset, stdout,
                 now, calibrations, session_max>>
  /\ calUnchanged
  /\ faceOnly

CenterOffset_OffByOne(total, readings) == total \div (readings + 1)

\* Line 157: center_offset = sum_orientation / center_readings.
CenterOffset(total, readings) == total \div readings

\* What main does when calibrate_face_orientation returns (lines 218-222);
\* the locals of the call are gone.
ReturnToMain(offset, printed) ==
  /\ center_offset' = offset
  /\ calibrated' = TRUE
  /\ stdout' = stdout \cup printed \cup {MsgComplete, MsgRecording}
  /\ pc' = "main"
  /\ center_readings' = 0
  /\ sum_orientation' = 0
  /\ since_calibration' = 0

\* Lines 78-80 and 165-166: the read fails while waiting for SPACE.
AwaitReadFail ==
  /\ pc = "awaiting"
  /\ ReturnToMain(0, {})
  /\ UNCHANGED <<cap_open, csv_exists, orientation_history, now, calibrations,
                 frames, display, session_max>>
  /\ gateUnchanged
  /\ faceOnly

\* Lines 78-119 with a frame read and a key other than SPACE: show the
\* frame, keep waiting.
AwaitFrame ==
  /\ pc = "awaiting"
  /\ UNCHANGED faceVars
  /\ faceOnly

AwaitConfirm_WritesRow(next_ret) ==
  /\ pc = "awaiting"
  /\ center_readings' = 0
  /\ sum_orientation' = 0
  /\ pc' = IF next_ret THEN "sampling" ELSE "crashed"
  /\ UNCHANGED <<cap_open, csv_exists, calibrated, center_offset,
                 orientation_history, stdout, now, calibrations, frames>>
  /\ csv_rows' = Append(csv_rows, [timestamp |-> now, orientation |-> 0])
  /\ UNCHANGED <<last_orientation_value, last_write_time>>
  /\ restUnchanged
  /\ faceOnly

\* Lines 119-128: SPACE resets the counters and reads one more frame to
\* draw on (next_ret is that read's ret); cv2.putText on the None of a
\* failed read raises and ends the process.
AwaitConfirm(next_ret) ==
  /\ pc = "awaiting"
  /\ center_readings' = 0
  /\ sum_orientation' = 0
  /\ pc' = IF next_ret THEN "sampling" ELSE "crashed"
  /\ UNCHANGED <<cap_open, csv_exists, calibrated, center_offset,
                 orientation_history, stdout, now, calibrations, frames>>
  /\ gateUnchanged /\ restUnchanged
  /\ faceOnly

\* Lines 131-133 and 155-163: a read fails in the sampling loop.
SamplingReadFail ==
  /\ pc = "sampling"
  /\ IF center_readings > 0
     THEN ReturnToMain(CenterOffset(sum_orientation, center_readings), {MsgOffset})
     ELSE /\ stdout' = stdout \cup {MsgFailed}
          /\ pc' = "awaiting"
          /\ UNCHANGED <<center_offset, calibrated, since_calibration>>
          /\ calUnchanged
  /\ UNCHANGED <<cap_open, csv_exists, orientation_history, now, calibrations,
                 frames, display, session_max>>
  /\ gateUnchanged
  /\ faceOnly

SamplingFrame_GivesUp(frame) ==
  /\ pc = "sampling"
  /\ frame.ret
  /\ LET orientation == FrameOrientation(frame)
         readings == IF orientation = None THEN center_readings
                     ELSE center_readings + 1
         total == IF orientation = None THEN sum_orientation
                  ELSE sum_orientation + orientation
     IN IF orientation = None
        THEN /\ pc' = "awaiting"
             /\ UNCHANGED <<center_offset, calibrated, stdout,
                            since_calibration>>
             /\ calUnchanged
        ELSE IF readings < ReadingsWanted
        THEN /\ center_readings' = readings
             /\ sum_orientation' = total
             /\ UNCHANGED <<pc, center_offset, calibrated, stdout,
                            since_calibration>>
        ELSE ReturnToMain(CenterOffset(total, readings), {MsgOffset})
  /\ UNCHANGED <<cap_open, csv_exists, orientation_history, now, calibrations,
                 frames, display, session_max>>
  /\ gateUnchanged
  /\ faceOnly

\* Lines 130-160: one frame of the sampling loop; with the tenth accepted
\* reading the loop ends and the offset is returned.
SamplingFrame(frame) ==
  /\ pc = "sampling"
  /\ frame.ret
  /\ LET orientation == FrameOrientation(frame)
         readings == IF orientation = None THEN center_readings
                     ELSE center_readings + 1
         total == IF orientation = None THEN sum_orientation
                  ELSE sum_orientation + orientation
     IN IF readings < ReadingsWanted
        THEN /\ center_readings' = readings
             /\ sum_orientation' = total
             /\ UNCHANGED <<pc, center_offset, calibrated, stdout,
                            since_calibration>>
        ELSE ReturnToMain(CenterOffset(total, readings), {MsgOffset})
  /\ UNCHANGED <<cap_open, csv_exists, orientation_history, now, calibrations,
                 frames, display, session_max>>
  /\ gateUnchanged
  /\ faceOnly

TickSteps == {100, 400}
\* time.time() and datetime.now() advance.  The clock is read only in the
\* main loop (lines 253, 255), with time 0 the moment the session starts, so
\* time that passes during a calibration is time that has passed when the
\* main loop resumes.
Tick(dt) ==
  /\ pc = "main"
  /\ now + dt <= MaxTime
  /\ now' = now + dt
  /\ UNCHANGED <<pc, cap_open, csv_exists, calibrated, center_offset,
                 orientation_history, stdout, calibrations, frames>>
  /\ gateUnchanged /\ calUnchanged /\ restUnchanged
  /\ faceOnly

FaceNext ==
  \/ \E opened \in BOOLEAN : OpenCamera(opened)
  \/ MainReadFail
  \/ MainQuit
  \/ MainStartCalibration
  \/ \E frame \in GoodFrames : MainFrame(frame)
  \/ AwaitReadFail
  \/ AwaitFrame
  \/ \E next_ret \in BOOLEAN : AwaitConfirm(next_ret)
  \/ SamplingReadFail
  \/ \E frame \in GoodFrames : SamplingFrame(frame)
  \/ \E dt \in TickSteps : Tick(dt)

\* face1 in a session in which the head does not move; the clock is not
\* followed.
LongNext ==
  \/ \E opened \in BOOLEAN : OpenCamera(opened)
  \/ MainReadFail
  \/ MainQuit
  \/ MainStartCalibration
  \/ \E frame \in LongFrames : MainFrame(frame)
  \/ AwaitReadFail
  \/ AwaitFrame
  \/ \E next_ret \in BOOLEAN : AwaitConfirm(next_ret)
  \/ SamplingReadFail
  \/ \E frame \in LongFrames : SamplingFrame(frame)

\* face1 in a session in which the head swings between the extremes; the
\* clock is not followed.
ExtremeNext ==
  \/ \E opened \in BOOLEAN : OpenCamera(opened)
  \/ MainReadFail
  \/ MainQuit
  \/ MainStartCalibration
  \/ \E frame \in ExtremeFrames : MainFrame(frame)
  \/ AwaitReadFail
  \/ AwaitFrame
  \/ \E next_ret \in BOOLEAN : AwaitConfirm(next_ret)
  \/ SamplingReadFail
  \/ \E frame \in ExtremeFrames : SamplingFrame(frame)

(* ---------------------- apply_moving_average, alone -------------------- *)
SmootherInputs == { 20 * Cent, 40 * Cent, 60 * Cent, 80 * Cent, 100 * Cent,
                    120 * Cent }

\* One call apply_moving_average(current_value, previous_values) with the
\* default window_size, as the main loop makes it (line 247).
SmootherCall(current_value) ==
  /\ Len(inputs) < MaxCalls
  /\ LET r == apply_moving_average(current_value, previous_values, WindowSize)
     IN /\ previous_values' = r.window
        /\ returned' = r.value
  /\ inputs' = Append(inputs, current_value)
  /\ smootherOnly

SmootherNext == \E current_value \in SmootherInputs : SmootherCall(current_value)

(* ------------------ calculate_face_orientation, alone ------------------ *)
MaxNose == 100            \* the nose tip moves over x = 0 .. MaxNose

\* Before the first call.
NoShape == Landmarks(0, <<0, 0>>, <<0, 0>>, <<0, 0>>)

\* The landmark sets the estimator is called on: a face 100 pixels wide with
\* the nose tip anywhere between (and, when MaxNose is larger, beyond) its
\* edges, and faces that are off the axis, wide, narrow, incomplete or
\* collapsed to a point.
EstimatorInputs ==
  { Landmarks(68, <<0, 0>>, <<100, 0>>, <<x, 0>>) : x \in 0..MaxNose }
    \cup { Landmarks(68, <<0, 0>>, <<14, 0>>, <<9, 12>>),     \* 15 and 13 from the edges
           Landmarks(68, <<0, 0>>, <<14, 0>>, <<5, 12>>),     \* 13 and 15 from the edges
           Landmarks(68, <<0, 0>>, <<500, 0>>, <<259, 0>>),
           Landmarks(68, <<0, 0>>, <<500, 0>>, <<100, 0>>),
           Landmarks(68, <<0, 0>>, <<9, 0>>, <<4, 0>>),
           Landmarks(68, <<0, 0>>, <<10, 0>>, <<5, 0>>),
           Landmarks(31, <<0, 0>>, <<100, 0>>, <<80, 0>>),
           Landmarks(30, <<0, 0>>, <<100, 0>>, <<80, 0>>),
           Landmarks(68, <<7, 7>>, <<7, 7>>, <<7, 7>>) }

\* The estimator's value for each of them (a table of the function).
EstimateOf == [lm \in EstimatorInputs |-> calculate_face_orientation(lm)]

\* One call calculate_face_orientation(landmarks_np), as lines 101, 142 and
\* 240 make it.
EstimatorCall(landmarks_np) ==
  /\ shape' = landmarks_np
  /\ raw' = EstimateOf[landmarks_np]
  /\ estimatorOnly

EstimatorNext == \E landmarks_np \in EstimatorInputs : EstimatorCall(landmarks_np)

(* ------------------------------ capture2.main -------------------------- *)
(* A serial line is the sequence of bytes readline() returned, each byte  *)
(* named by a string: the ASCII characters by themselves, "LF" the line   *)
(* feed, "xFF" a byte that is not valid UTF-8.                            *)
Whitespace == {" ", "LF", "CR"}
DigitChars == <<"0", "1", "2", "3", "4", "5", "6", "7", "8", "9">>
Digits == { DigitChars[i] : i \in 1..10 }
DigitVal(c) == (CHOOSE i \in 1..10 : DigitChars[i] = c) - 1

\* bytes.decode('utf-8'): raises UnicodeDecodeError on an invalid byte, and is
\* the same characters otherwise (the bytes are ASCII).
Decodable(bytes) == \A i \in 1..Len(bytes) : bytes[i] # "xFF"

\* str.strip(): leading and trailing whitespace removed.
RECURSIVE LStrip(_)
LStrip(t) == IF t # <<>> /\ Head(t) \in Whitespace THEN LStrip(Tail(t)) ELSE t
RECURSIVE RStrip(_)
RStrip(t) ==
  IF t # <<>> /\ t[Len(t)] \in Whitespace THEN RStrip(SubSeq(t, 1, Len(t) - 1))
  ELSE t
Strip(t) == RStrip(LStrip(t))

\* str.split(','): the fields between the commas; at least one, maybe empty.
RECURSIVE SplitFrom(_, _, _)
SplitFrom(t, done, field) ==
  IF t = <<>> THEN Append(done, field)
  ELSE IF Head(t) = "," THEN SplitFrom(Tail(t), Append(done, field), <<>>)
  ELSE SplitFrom(Tail(t), done, Append(field, Head(t)))
Split(t) == SplitFrom(t, <<>>, <<>>)

IsDigits(t) == t # <<>> /\ \A i \in 1..Len(t) : t[i] \in Digits
RECURSIVE DigitsValue(_)
DigitsValue(t) ==
  IF t = <<>> THEN 0
  ELSE 10 * DigitsValue(SubSeq(t, 1, Len(t) - 1)) + DigitVal(t[Len(t)])
Signed(t) == t # <<>> /\ Head(t) \in {"-", "+"}
Unsigned(t) == IF Signed(t) THEN Tail(t) ELSE t
SignOf(t) == IF t # <<>> /\ Head(t) = "-" THEN 0 - 1 ELSE 1

\* int(field): surrounding whitespace, an optional sign, decimal digits;
\* anything else raises ValueError.
IntParses(field) == IsDigits(Unsigned(Strip(field)))
IntValue(field) == SignOf(Strip(field)) * DigitsValue(Unsigned(Strip(field)))

\* float(field) for plain decimal notation: surrounding whitespace, an
\* optional sign, digits with at most one point and a digit on one side of
\* it; anything else over these bytes raises ValueError.  The value is in
\* thousandths (Milli), digits past the third decimal dropped.
Milli == 1000
DotAt(t) == { i \in 1..Len(t) : t[i] = "." }
FloatParses(field) ==
  LET u == Unsigned(Strip(field)) IN
  IF DotAt(u) = {} THEN IsDigits(u)
  ELSE /\ Cardinality(DotAt(u)) = 1
       /\ LET d == CHOOSE i \in DotAt(u) : TRUE
              whole == SubSeq(u, 1, d - 1)
              frac == SubSeq(u, d + 1, Len(u))
          IN /\ whole # <<>> \/ frac # <<>>
             /\ whole = <<>> \/ IsDigits(whole)
             /\ frac = <<>> \/ IsDigits(frac)
FloatValue(field) ==
  LET u == Unsigned(Strip(field))
      d == IF DotAt(u) = {} THEN Len(u) + 1 ELSE CHOOSE i \in DotAt(u) : TRUE
      whole == SubSeq(u, 1, d - 1)
      frac == SubSeq(u, d + 1, Len(u))
      padded == SubSeq(frac \o <<"0", "0", "0">>, 1, 3)
  IN SignOf(Strip(field)) * (DigitsValue(whole) * Milli + DigitsValue(padded))

\* The lines the serial source can deliver.
SerialLines ==
  { <<"E", "C", "G", ",", "5", "1", "2", "LF">>,   \* ECG,512
    <<"E", "C", "G", ",", "-", "7", "LF">>,   \* ECG,-7
    <<"E", "C", "G", ",", "a", "b", "c", "LF">>,   \* ECG,abc
    <<"E", "C", "G", ",", "5", ".", "1", "LF">>,   \* ECG,5.1
    <<"E", "C", "G", "LF">>,   \* ECG
    <<"E", "C", "G", ",", "5", ",", "1", "LF">>,   \* ECG,5,1
    <<"I", "M", "U", ",", "0", ".", "1", ",", "0", ".", "2", ",", "0", ".", "3", ",", "0", ".", "0", "1", ",", "0", ".", "0", "2", ",", "0", ".", "0", "3", "LF">>,   \* IMU,0.1,0.2,0.3,0.01,0.02,0.03
    <<"I", "M", "U", ",", "1", ",", "-", "2", ",", ".", "5", ",", "4", ".", ",", "0", ",", "0", "LF">>,   \* IMU,1,-2,.5,4.,0,0
    <<"I", "M", "U", ",", "0", ".", "1", ",", "0", ".", "2", ",", "0", ".", "3", ",", "0", ".", "0", "1", ",", "0", ".", "0", "2", ",", "a", "b", "c", "LF">>,   \* IMU,0.1,0.2,0.3,0.01,0.02,abc
    <<"I", "M", "U", ",", "a", "b", "c", ",", "0", ".", "2", ",", "0", ".", "3", ",", "0", ".", "0", "1", ",", "0", ".", "0", "2", ",", "0", ".", "0", "3", "LF">>,   \* IMU,abc,0.2,0.3,0.01,0.02,0.03
    <<"I", "M", "U", ",", "0", ".", "1", ",", "0", ".", "2", "LF">>,   \* IMU,0.1,0.2
    <<"F", "O", "O", ",", "1", ",", "2", "LF">>,   \* FOO,1,2
    <<"LF">>,   \* 
    <<"xFF", "E", "C", "G", ",", "5", "1", "2", "LF">> }   \* invalid byte, then ECG,512

\* line.strip() and line.split(',') of each line the source can deliver
\* (tables of the functions above).
StrippedOf == [bytes \in SerialLines |-> Strip(bytes)]
PartsOf == [bytes \in SerialLines |-> Split(Strip(bytes))]

TagECG == <<"E", "C", "G">>
TagIMU == <<"I", "M", "U">>
StatsPeriodMs == 1000

MsgPortOpened == "Serial port opened successfully"
MsgPortError == "Error opening serial port"
MsgStopped == "Data collection stopped by user"
MsgPortClosed == "Serial port closed"
MsgLegSaved == "ECG data saved to"

Flushed_Nothing(written, on_disk) == on_disk

\* file.flush() (lines 66, 84): everything written so far leaves the buffer.
Flushed(written, on_disk) == written

\* Leaving the with block (line 31) closes both files, which flushes them.
Closed(written, on_disk) == written

\* Lines 107-114: the finally block closes the port and says where the data is.
Finally == {MsgPortClosed, MsgLegSaved}

\* Lines 22-43 and 102-104: open the port; SerialException is reported and
\* main returns, else both logs are created and the counters start.
OpenSerial(opened) ==
  /\ leg_pc = "start"
  /\ IF ~opened
     THEN /\ leg_pc' = "failed"
          /\ leg_stdout' = leg_stdout \cup {MsgPortError, MsgLegSaved}
          /\ UNCHANGED <<ser_open, files_open, files_exist, last_stats_time>>
     ELSE /\ leg_pc' = "loop"
          /\ ser_open' = TRUE
          /\ files_open' = TRUE
          /\ files_exist' = TRUE
          /\ leg_stdout' = leg_stdout \cup {MsgPortOpened}
          /\ last_stats_time' = clock
  /\ UNCHANGED <<ecg_file, imu_file, ecg_disk, imu_disk, ecg_count,
                 imu_count, stats, skipped, received, ecg_arrived,
                 imu_arrived, delivered, clock>>
  /\ legOnly

\* Lines 59-62: the ECG row, f"{timestamp},{ecg_value}".
EcgRow(timestamp, parts) == <<timestamp, IntValue(parts[2])>>

ImuRow_GyroFirst(timestamp, parts) ==
  <<timestamp, FloatValue(parts[5]), FloatValue(parts[6]), FloatValue(parts[7]),
    FloatValue(parts[2]), FloatValue(parts[3]), FloatValue(parts[4])>>

\* Lines 72-80: the IMU row, the timestamp and the six values in wire order.
ImuRow(timestamp, parts) ==
  <<timestamp, FloatValue(parts[2]), FloatValue(parts[3]), FloatValue(parts[4]),
    FloatValue(parts[5]), FloatValue(parts[6]), FloatValue(parts[7])>>

\* Lines 88-92: the statistics line, once a second.
StatsStep(ecg, imu) ==
  IF clock - last_stats_time >= StatsPeriodMs
  THEN /\ stats' = <<ecg, imu>>
       /\ last_stats_time' = clock
  ELSE UNCHANGED <<stats, last_stats_time>>

\* The lines that produce a row.
RowLines ==
  { bytes \in SerialLines :
      /\ Decodable(bytes)
      /\ LET parts == PartsOf[bytes]
         IN \/ parts[1] = TagECG /\ Len(parts) = 2 /\ IntParses(parts[2])
            \/ /\ parts[1] = TagIMU /\ Len(parts) = 7
               /\ \A i \in 2..7 : FloatParses(parts[i]) }

\* Line 48: ser.readline() has returned bytes; a line that holds a sample
\* has arrived on its channel.
Arrive(bytes) ==
  /\ ecg_arrived' = IF bytes \in RowLines /\ PartsOf[bytes][1] = TagECG
                    THEN Append(ecg_arrived, bytes) ELSE ecg_arrived
  /\ imu_arrived' = IF bytes \in RowLines /\ PartsOf[bytes][1] = TagIMU
                    THEN Append(imu_arrived, bytes) ELSE imu_arrived

\* Lines 46-100 with in_waiting > 0: one line is read, decoded, split and
\* routed.  A UnicodeDecodeError is raised outside the inner try and is not
\* caught by the outer one: the with block and finally close everything and
\* the exception ends the process.
ReadLine(bytes) ==
  /\ leg_pc = "loop"
  /\ delivered < MaxLines
  /\ delivered' = delivered + 1
  /\ received' = bytes
  /\ Arrive(bytes)
  /\ IF ~Decodable(bytes)
     THEN /\ leg_pc' = "crashed"
          /\ ser_open' = FALSE
          /\ files_open' = FALSE
          /\ ecg_disk' = Closed(ecg_file, ecg_disk)
          /\ imu_disk' = Closed(imu_file, imu_disk)
          /\ leg_stdout' = leg_stdout \cup Finally
          /\ UNCHANGED <<ecg_file, imu_file, ecg_count, imu_count, stats,
                         last_stats_time, skipped>>
     ELSE
       LET line == StrippedOf[bytes]
           timestamp == clock
           parts == PartsOf[bytes]
       IN /\ UNCHANGED <<leg_pc, ser_open, files_open, leg_stdout>>
          /\ IF parts[1] = TagECG /\ Len(parts) = 2
             THEN IF IntParses(parts[2])
                  THEN /\ ecg_file' = Append(ecg_file, EcgRow(timestamp, parts))
                       /\ ecg_disk' = Flushed(ecg_file', ecg_disk)
                       /\ ecg_count' = ecg_count + 1
                       /\ StatsStep(ecg_count + 1, imu_count)
                       /\ UNCHANGED <<imu_file, imu_disk, imu_count, skipped>>
                  ELSE /\ skipped' = Append(skipped, line)
                       /\ UNCHANGED <<ecg_file, imu_file, ecg_disk, imu_disk,
                                      ecg_count, imu_count, stats,
                                      last_stats_time>>
             ELSE IF parts[1] = TagIMU /\ Len(parts) = 7
             THEN IF \A i \in 2..7 : FloatParses(parts[i])
                  THEN /\ imu_file' = Append(imu_file, ImuRow(timestamp, parts))
                       /\ imu_disk' = Flushed(imu_file', imu_disk)
                       /\ imu_count' = imu_count + 1
                       /\ StatsStep(ecg_count, imu_count + 1)
                       /\ UNCHANGED <<ecg_file, ecg_disk, ecg_count, skipped>>
                  ELSE /\ skipped' = Append(skipped, line)
                       /\ UNCHANGED <<ecg_file, imu_file, ecg_disk, imu_disk,
                                      ecg_count, imu_count, stats,
                                      last_stats_time>>
             ELSE /\ StatsStep(ecg_count, imu_count)
                  /\ UNCHANGED <<ecg_file, imu_file, ecg_disk, imu_disk,
                                 ecg_count, imu_count, skipped>>
  /\ UNCHANGED <<files_exist, clock>>
  /\ legOnly

\* Lines 46 and 100 with nothing waiting: sleep and poll again.
Poll ==
  /\ leg_pc = "loop"
  /\ UNCHANGED legVars
  /\ legOnly

\* Lines 105-114: Ctrl+C between two iterations.
Interrupt ==
  /\ leg_pc = "loop"
  /\ leg_pc' = "stopped"
  /\ ser_open' = FALSE
  /\ files_open' = FALSE
  /\ ecg_disk' = Closed(ecg_file, ecg_disk)
  /\ imu_disk' = Closed(imu_file, imu_disk)
  /\ leg_stdout' = leg_stdout \cup {MsgStopped} \cup Finally
  /\ UNCHANGED <<files_exist, ecg_file, imu_file, ecg_count, imu_count,
                 last_stats_time, stats, skipped, received, ecg_arrived,
                 imu_arrived, delivered, clock>>
  /\ legOnly

\* The places inside an iteration where it can be cut short: after the line
\* was read (line 48), after the row was written (lines 65, 83), after the
\* flush (lines 66, 84) and before the count.
CutPoints == {"read", "written", "flushed"}

\* The two logs (written, and out of the buffer) when the iteration that
\* read bytes, a line that produces a row, has got as far as the point at.
CutShort(bytes, at) ==
  LET parts == PartsOf[bytes]
      timestamp == clock
      to_ecg == parts[1] = TagECG
      ecg == IF to_ecg /\ at # "read"
             THEN Append(ecg_file, EcgRow(timestamp, parts)) ELSE ecg_file
      imu == IF ~to_ecg /\ at # "read"
             THEN Append(imu_file, ImuRow(timestamp, parts)) ELSE imu_file
  IN [ecg |-> ecg,
      imu |-> imu,
      ecg_out |-> IF to_ecg /\ at = "flushed" THEN Flushed(ecg, ecg_disk)
                  ELSE ecg_disk,
      imu_out |-> IF ~to_ecg /\ at = "flushed" THEN Flushed(imu, imu_disk)
                  ELSE imu_disk]

\* Lines 105-114: Ctrl+C inside an iteration.  KeyboardInterrupt is raised
\* wherever the main thread is; the with block closes the files and the
\* finally block the port.
InterruptedIteration(bytes, at) ==
  /\ leg_pc = "loop"
  /\ delivered < MaxLines
  /\ received' = bytes
  /\ Arrive(bytes)
  /\ LET cut == CutShort(bytes, at)
     IN /\ ecg_file' = cut.ecg
        /\ imu_file' = cut.imu
        /\ ecg_disk' = Closed(cut.ecg, cut.ecg_out)
        /\ imu_disk' = Closed(cut.imu, cut.imu_out)
  /\ leg_pc' = "stopped"
  /\ ser_open' = FALSE
  /\ files_open' = FALSE
  /\ leg_stdout' = leg_stdout \cup {MsgStopped} \cup Finally
  /\ UNCHANGED <<files_exist, ecg_count, imu_count, last_stats_time, stats,
                 skipped, delivered, clock>>
  /\ legOnly

\* The process is killed inside an iteration: nothing of lines 102-114 runs
\* and what is still in the process's buffers is lost.
Kill(bytes, at) ==
  /\ leg_pc = "loop"
  /\ delivered < MaxLines
  /\ received' = bytes
  /\ Arrive(bytes)
  /\ LET cut == CutShort(bytes, at)
     IN /\ ecg_file' = cut.ecg
        /\ imu_file' = cut.imu
        /\ ecg_disk' = cut.ecg_out
        /\ imu_disk' = cut.imu_out
  /\ leg_pc' = "killed"
  /\ ser_open' = FALSE
  /\ files_open' = FALSE
  /\ UNCHANGED <<files_exist, leg_stdout, ecg_count, imu_count,
                 last_stats_time, stats, skipped, delivered, clock>>
  /\ legOnly

\* Lines 102-104 and 107-114: the port fails while polling or reading.
SerialError ==
  /\ leg_pc = "loop"
  /\ leg_pc' = "failed"
  /\ ser_open' = FALSE
  /\ files_open' = FALSE
  /\ ecg_disk' = Closed(ecg_file, ecg_disk)
  /\ imu_disk' = Closed(imu_file, imu_disk)
  /\ leg_stdout' = leg_stdout \cup {MsgPortError} \cup Finally
  /\ UNCHANGED <<files_exist, ecg_file, imu_file, ecg_count, imu_count,
                 last_stats_time, stats, skipped, received, ecg_arrived,
                 imu_arrived, delivered, clock>>
  /\ legOnly

LegTick ==
  /\ leg_pc \in {"start", "loop"}
  /\ clock < MaxTicks * StatsPeriodMs
  /\ clock' = clock + StatsPeriodMs
  /\ UNCHANGED <<leg_pc, ser_open, files_open, files_exist, ecg_file,
                 imu_file, ecg_disk, imu_disk, leg_stdout, ecg_count,
                 imu_count, last_stats_time, stats, skipped, received,
                 ecg_arrived, imu_arrived, delivered>>
  /\ legOnly

LegNext ==
  \/ \E opened \in BOOLEAN : OpenSerial(opened)
  \/ \E bytes \in SerialLines : ReadLine(bytes)
  \/ Poll
  \/ Interrupt
  \/ \E bytes \in RowLines, at \in CutPoints : InterruptedIteration(bytes, at)
  \/ \E bytes \in RowLines, at \in CutPoints : Kill(bytes, at)
  \/ SerialError
  \/ LegTick

(* ---------------------------- specifications --------------------------- *)
\* The state before either program or the smoother has taken a step.
Init ==
  /\ pc = "start"
  /\ cap_open = FALSE
  /\ csv_exists = FALSE
  /\ csv_rows = <<>>
  /\ calibrated = FALSE
  /\ center_offset = 0
  /\ last_orientation_value = None
  /\ last_write_time = 0
  /\ orientation_history = <<>>
  /\ center_readings = 0
  /\ sum_orientation = 0
  /\ stdout = {}
  /\ now = 0
  /\ calibrations = 0
  /\ frames = 0
  /\ since_calibration = 0
  /\ display = "nothing"
  /\ session_max = MaxSession
  /\ previous_values = <<>>
  /\ inputs = <<>>
  /\ returned = None
  /\ leg_pc = "start"
  /\ ser_open = FALSE
  /\ files_open = FALSE
  /\ files_exist = FALSE
  /\ ecg_file = <<>>
  /\ imu_file = <<>>
  /\ ecg_disk = <<>>
  /\ imu_disk = <<>>
  /\ leg_stdout = {}
  /\ ecg_count = 0
  /\ imu_count = 0
  /\ last_stats_time = 0
  /\ stats = <<>>
  /\ skipped = <<>>
  /\ received = <<>>
  /\ ecg_arrived = <<>>
  /\ imu_arrived = <<>>
  /\ delivered = 0
  /\ clock = 0
  /\ shape = NoShape
  /\ raw = None

\* The same, for a session long enough to fill the smoothing window after a
\* calibration.
LongInit ==
  /\ pc = "start"
  /\ cap_open = FALSE
  /\ csv_exists = FALSE
  /\ csv_rows = <<>>
  /\ calibrated = FALSE
  /\ center_offset = 0
  /\ last_orientation_value = None
  /\ last_write_time = 0
  /\ orientation_history = <<>>
  /\ center_readings = 0
  /\ sum_orientation = 0
  /\ stdout = {}
  /\ now = 0
  /\ calibrations = 0
  /\ frames = 0
  /\ since_calibration = 0
  /\ display = "nothing"
  /\ session_max = MaxLongSession
  /\ previous_values = <<>>
  /\ inputs = <<>>
  /\ returned = None
  /\ leg_pc = "start"
  /\ ser_open = FALSE
  /\ files_open = FALSE
  /\ files_exist = FALSE
  /\ ecg_file = <<>>
  /\ imu_file = <<>>
  /\ ecg_disk = <<>>
  /\ imu_disk = <<>>
  /\ leg_stdout = {}
  /\ ecg_count = 0
  /\ imu_count = 0
  /\ last_stats_time = 0
  /\ stats = <<>>
  /\ skipped = <<>>
  /\ received = <<>>
  /\ ecg_arrived = <<>>
  /\ imu_arrived = <<>>
  /\ delivered = 0
  /\ clock = 0
  /\ shape = NoShape
  /\ raw = None

FaceSpec == Init /\ [][FaceNext]_vars
SmootherSpec == Init /\ [][SmootherNext]_vars
LegSpec == Init /\ [][LegNext]_vars
EstimatorSpec == Init /\ [][EstimatorNext]_vars
LongSpec == LongInit /\ [][LongNext]_vars
ExtremeSpec == Init /\ [][ExtremeNext]_vars

\* The frames of ExtremeSpec whose orientation is defined.
ExtremeDefinedFrames == { f \in ExtremeFrames : FrameOrientation(f) # None }
\* The same session with a camera that keeps delivering frames in which the
\* orientation is defined while the sampling loop (lines 130-153) runs.
ExtremeFairSpec ==
  /\ Init
  /\ [][ExtremeNext]_vars
  /\ WF_vars(\E frame \in ExtremeDefinedFrames : SamplingFrame(frame))

\* Both programs started side by side, and stopped, with no frame processed
\* and no line read.
StartupNext ==
  \/ \E opened \in BOOLEAN : OpenCamera(opened)
  \/ MainReadFail
  \/ MainQuit
  \/ \E dt \in TickSteps : Tick(dt)
  \/ \E opened \in BOOLEAN : OpenSerial(opened)
  \/ Poll
  \/ Interrupt
  \/ SerialError
  \/ LegTick
StartupSpec == Init /\ [][StartupNext]_vars

(* ================================ claims =============================== *)

\* The orientation of the frame the main loop has just processed: the mean of
\* the window after that frame, clamped.
FinalOf(window) == Clamp(SumSeq(window) \div Len(window))

\* A step of the main loop that processed a frame with a defined orientation.
ProcessedFrame == frames' = frames + 1

\* C1: if the frame source fails in the sampling phase after at least one
\* and fewer than 10 readings were accepted, the attempt is reported as
\* failed, is not reported as complete, and no offset computed from the
\* partial batch reaches the session (the offset stays what it was).
C1_AbortGivesNoPartialEstimate ==
  [][ (SamplingReadFail /\ center_readings \in 1..(ReadingsWanted - 1))
        => /\ MsgFailed \in stdout'
           /\ MsgOffset \notin stdout'
           /\ center_offset' = center_offset ]_vars

\* C2: the session's offset changes only when an attempt succeeds: an
\* attempt that ends because the frame source failed leaves the offset held
\* by the main loop as it was before the attempt.  (The claim adds that the
\* operator is then told the attempt failed; main prints "Calibration
\* complete!" after every attempt, so that part fails on the same steps.)
C2_AbortKeepsOffset ==
  [][ ((AwaitReadFail \/ SamplingReadFail) /\ pc' = "main")
        => center_offset' = center_offset ]_vars

\* The lines section 4.5 of the specification calls valid.
FieldsOf(bytes) == PartsOf[bytes]
ValidECG(bytes) ==
  /\ Decodable(bytes)
  /\ Len(FieldsOf(bytes)) = 2
  /\ FieldsOf(bytes)[1] = TagECG
  /\ IntParses(FieldsOf(bytes)[2])
ValidIMU(bytes) ==
  /\ Decodable(bytes)
  /\ Len(FieldsOf(bytes)) = 7
  /\ FieldsOf(bytes)[1] = TagIMU
  /\ \A i \in 2..7 : FloatParses(FieldsOf(bytes)[i])
Malformed(bytes) == ~ValidECG(bytes) /\ ~ValidIMU(bytes)

\* A step of the serial loop that read a line.
LineRead == delivered' = delivered + 1

\* C3: whatever bytes a malformed line holds, the iteration that reads it
\* ends with the loop still running and with no row added to either log.
C3_MalformedLineNeverHalts ==
  [][ (LineRead /\ Malformed(received'))
        => /\ leg_pc' = "loop"
           /\ ecg_file' = ecg_file
           /\ imu_file' = imu_file ]_vars

\* C4: every line of text that produces no record (unknown tag, wrong
\* number of fields, a field that does not parse) is reported by the
\* invalid-line diagnostic in the iteration that reads it.
C4_InvalidLineDiagnosed ==
  [][ (LineRead /\ Decodable(received') /\ Malformed(received'))
        => skipped' = Append(skipped, Strip(received')) ]_vars

\* What the sample gate is specified to decide for a frame whose final
\* orientation is final, from the log and the gate's state before the frame.
GateOpen(final) ==
  \/ csv_rows = <<>>
  \/ Abs(final - last_orientation_value) > 3 * Cent
  \/ now - last_write_time >= 500

\* C5: for every processed frame with a defined orientation a row is
\* appended to the orientation log if and only if no row has been logged
\* yet, or the final value differs from the last logged value by more than
\* 0.03, or at least 500 ms have passed since the last write.
C5_GateDecision ==
  [][ ProcessedFrame
        => (Len(csv_rows') = Len(csv_rows) + 1
              <=> GateOpen(FinalOf(orientation_history')))
           /\ (Len(csv_rows') # Len(csv_rows) + 1 => csv_rows' = csv_rows) ]_vars

\* previous 0.10 was logged at 0 ms; 0.14 at 100 ms was logged (change of
\* 0.04); a third frame 100 ms later, within 0.03 of 0.14, was not.
C5_Witness ==
  /\ frames = 3
  /\ Len(orientation_history) = 3
  /\ csv_rows = << [timestamp |-> 0, orientation |-> 10],
                   [timestamp |-> 100, orientation |-> 14] >>
  /\ now = 200

\* C6: a row appended on a frame whose value is within 0.03 of the last
\* logged value carries a timestamp at least 500 ms after the previous
\* row's, and a frame whose value differs from the last logged value by
\* more than 0.03 is logged on that frame whatever time has passed.
C6_StaticPoseRateLimit ==
  [][ (ProcessedFrame /\ csv_rows # <<>>)
        => LET final == FinalOf(orientation_history')
               static == Abs(final - last_orientation_value) <= 3 * Cent
           IN /\ (static /\ csv_rows' # csv_rows)
                   => csv_rows'[Len(csv_rows')].timestamp
                        - csv_rows[Len(csv_rows)].timestamp >= 500
              /\ ~static => Len(csv_rows') = Len(csv_rows) + 1 ]_vars

\* A static pose at 0.10: the first row at 0 ms, the heartbeat row at 500 ms.
C6_Witness ==
  /\ frames = 2
  /\ orientation_history = <<10 * Cent, 10 * Cent>>
  /\ csv_rows = << [timestamp |-> 0, orientation |-> 10],
                   [timestamp |-> 500, orientation |-> 10] >>

\* C7: when the gate emits, exactly one row (the current time, the value to
\* two decimals) is appended and the last-logged value and last-write time
\* become that value and the current time; when it does not, the log, the
\* last-logged value and the last-write time are unchanged.
C7_GateStateUpdate ==
  [][ ProcessedFrame
        => LET final == FinalOf(orientation_history') IN
           IF GateOpen(final)
           THEN /\ csv_rows' = Append(csv_rows,
                     [timestamp |-> now, orientation |-> Format2(final)])
                /\ last_orientation_value' = final
                /\ last_write_time' = now
           ELSE UNCHANGED <<csv_rows, last_orientation_value, last_write_time>> ]_vars

\* The gate has just emitted 0.14 at 100 ms.
C7_Witness ==
  /\ frames = 2
  /\ csv_rows = << [timestamp |-> 0, orientation |-> 10],
                   [timestamp |-> 100, orientation |-> 14] >>
  /\ last_orientation_value = 14 * Cent
  /\ last_write_time = 100
  /\ now = 100

\* The last k elements of a sequence.
LastOf(seq, k) == SubSeq(seq, Len(seq) - k + 1, Len(seq))

\* C8: after n calls on one window the window holds the most recent
\* min(n, 5) inputs in insertion order, never more than 5, and the value
\* returned by the last call is the arithmetic mean of the window as that
\* call left it; 0.2 .. 1.2 leave [0.4 .. 1.2] and return 0.8.
C8_SmoothingWindow ==
  LET n == Len(inputs) IN
  /\ Len(previous_values) <= 5
  /\ previous_values = LastOf(inputs, Min(n, 5))
  /\ n > 0 => returned * Len(previous_values) = SumSeq(previous_values)
  /\ inputs = <<20 * Cent, 40 * Cent, 60 * Cent, 80 * Cent, 100 * Cent, 120 * Cent>>
       => /\ previous_values = <<40 * Cent, 60 * Cent, 80 * Cent, 100 * Cent, 120 * Cent>>
          /\ returned = 80 * Cent

C8_Witness ==
  /\ inputs = <<20 * Cent, 40 * Cent, 60 * Cent, 80 * Cent, 100 * Cent, 120 * Cent>>
  /\ Len(previous_values) = 5
  /\ returned = 80 * Cent

\* C9: a valid ECG line appends exactly one row (receiver timestamp, the
\* integer) to the ECG log and nothing to the IMU log; a valid IMU line
\* appends exactly one row (receiver timestamp, the six values in wire
\* order) to the IMU log and nothing to the ECG log; a line with a field
\* that does not parse appends nothing to either log.
C9_Routing ==
  [][ LineRead
        => LET bytes == received'
               fields == FieldsOf(bytes)
           IN /\ ValidECG(bytes)
                   => /\ ecg_file' = Append(ecg_file, <<clock, IntValue(fields[2])>>)
                      /\ imu_file' = imu_file
              /\ ValidIMU(bytes)
                   => /\ imu_file' = Append(imu_file,
                            <<clock>> \o [i \in 1..6 |-> FloatValue(fields[i + 1])])
                      /\ ecg_file' = ecg_file
              /\ (Decodable(bytes) /\ Malformed(bytes)
                    /\ fields[1] \in {TagECG, TagIMU})
                   => ecg_file' = ecg_file /\ imu_file' = imu_file ]_vars

\* "ECG,512" and "IMU,0.1,0.2,0.3,0.01,0.02,0.03" were routed, and a line
\* with an unparseable field left both logs alone.
C9_Witness ==
  /\ ecg_file = << <<0, 512>> >>
  /\ imu_file = << <<0, 100, 200, 300, 10, 20, 30>> >>
  /\ received = <<"I", "M", "U", ",", "0", ".", "1", ",", "0", ".", "2", ",",
                  "0", ".", "3", ",", "0", ".", "0", "1", ",", "0", ".", "0",
                  "2", ",", "a", "b", "c", "LF">>
  /\ delivered = 3

\* C10: in the sampling phase a frame with a defined orientation adds one
\* to the accepted count and its value to the sum, a frame with no face or
\* an undefined orientation changes neither; the count never exceeds 10;
\* and the tenth accepted reading makes the offset their sum divided by 10,
\* which becomes the session's offset whatever it was before.
C10_CalibrationResult ==
  [][ \A frame \in GoodFrames :
        (pc = "sampling" /\ SamplingFrame(frame))
          => LET o == FrameOrientation(frame) IN
             /\ center_readings < 10 /\ center_readings' <= 10
             /\ o = None
                  => /\ pc' = "sampling"
                     /\ UNCHANGED <<center_readings, sum_orientation, center_offset>>
             /\ (o # None /\ center_readings < 9)
                  => /\ pc' = "sampling"
                     /\ center_readings' = center_readings + 1
                     /\ sum_orientation' = sum_orientation + o
                     /\ center_offset' = center_offset
             /\ (o # None /\ center_readings = 9)
                  => /\ pc' = "main"
                     /\ 10 * center_offset' = sum_orientation + o
                     /\ MsgOffset \in stdout' ]_vars

\* A second calibration has replaced the offset by the mean of ten readings
\* (five of 0.10 and five of 0.18).
C10_Witness ==
  /\ calibrations = 2
  /\ pc = "main"
  /\ calibrated
  /\ center_offset = 14 * Cent
  /\ MsgOffset \in stdout
  /\ MsgFailed \notin stdout

\* The distances the estimator takes from a landmark set, and the order of
\* two landmark sets by relative_pos = left / (left + right).
DistLeft(lm) == Norm(lm.p30, lm.p0)
DistRight(lm) == Norm(lm.p30, lm.p16)
RelPosLess(a, b) ==
  DistLeft(a) * (DistLeft(b) + DistRight(b))
    < DistLeft(b) * (DistLeft(a) + DistRight(a))

\* C11: of two calls on the same face edges whose relative_pos values are
\* both at least 0.5 and both defined, the one with the larger relative_pos
\* returns at least as much as the other (the response never decreases as
\* the nose moves from the centre to the right edge).
C11_ResponseMonotone ==
  [][ ( /\ raw # None /\ raw' # None
        /\ shape.p0 = shape'.p0 /\ shape.p16 = shape'.p16
        /\ DistLeft(shape) >= DistRight(shape)
        /\ RelPosLess(shape, shape') )
        => raw <= raw' ]_vars

\* C12: a termination requested by the operator takes effect only between
\* two iterations: the step that stops the serial loop reads no line and
\* writes nothing (whatever iteration there was had finished), and leaves
\* both logs closed with every written row in them and the port released;
\* the step that stops the orientation loop leaves the log as it was and
\* the camera released.
C12_CancelAtIterationBoundary ==
  [][ /\ (leg_pc = "loop" /\ leg_pc' = "stopped")
           => /\ UNCHANGED <<received, ecg_file, imu_file, ecg_count, imu_count>>
              /\ ~ser_open' /\ ~files_open'
              /\ ecg_disk' = ecg_file' /\ imu_disk' = imu_file'
      /\ (pc = "main" /\ pc' = "done")
           => /\ UNCHANGED csv_rows
              /\ ~cap_open' ]_vars

\* a is an initial part of b.
IsPrefix(a, b) == Len(a) <= Len(b) /\ a = SubSeq(b, 1, Len(a))

\* C13: between iterations, and after any orderly exit, every row written
\* to either log has left the buffer; at any moment, a kill included, what
\* has left the buffer is an initial part of what was written and at most
\* one row of the two logs together is missing from it.
C13_FlushedEachIteration ==
  /\ leg_pc \in {"loop", "stopped", "failed", "crashed"}
       => ecg_disk = ecg_file /\ imu_disk = imu_file
  /\ IsPrefix(ecg_disk, ecg_file)
  /\ IsPrefix(imu_disk, imu_file)
  /\ (Len(ecg_file) - Len(ecg_disk)) + (Len(imu_file) - Len(imu_disk)) <= 1

\* Two rows were accepted and flushed, one to each log; the process was
\* killed after the third was written and before its flush, and only that
\* row is lost.
C13_Witness ==
  /\ leg_pc = "killed"
  /\ Len(ecg_file) = 2 /\ Len(ecg_disk) = 1
  /\ Len(imu_file) = 1 /\ Len(imu_disk) = 1
  /\ delivered = 2

\* C14: when the camera does not open, face1 reports it and ends with no
\* orientation log created, no camera held and nothing processed; when the
\* serial port does not open, capture2 reports it and ends with neither log
\* created and no line read; and from there neither program takes another
\* step.
C14_StartupFailureLeavesNoLog ==
  /\ [](pc = "exit"
          => /\ MsgCameraError \in stdout
             /\ ~csv_exists /\ csv_rows = <<>>
             /\ ~cap_open
             /\ frames = 0 /\ calibrations = 0)
  /\ []((leg_pc = "failed" /\ MsgPortOpened \notin leg_stdout)
          => /\ MsgPortError \in leg_stdout
             /\ ~files_exist /\ ~files_open
             /\ ecg_file = <<>> /\ imu_file = <<>>
             /\ ~ser_open
             /\ delivered = 0 /\ received = <<>>)
  /\ [][pc = "exit" => UNCHANGED faceVars]_vars
  /\ [][(leg_pc = "failed" /\ MsgPortOpened \notin leg_stdout)
          => UNCHANGED legVars]_vars

\* Neither the camera nor the port opened: both programs have ended.
C14_Witness ==
  /\ pc = "exit" /\ MsgCameraError \in stdout /\ ~csv_exists
  /\ leg_pc = "failed" /\ MsgPortError \in leg_stdout /\ ~files_exist

\* C15: a main-loop frame with no face, too few landmarks or too narrow a
\* face (the step on which the window comes to show a frame without an
\* orientation) is shown and nothing else: no row is appended, the smoothing
\* window, the last logged value, the last write time and the offset stay
\* as they were, and the loop goes on.
C15_DegenerateFrameSkipped ==
  [][ (pc = "main" /\ display # "frame" /\ display' = "frame")
        => /\ pc' = "main"
           /\ UNCHANGED <<csv_rows, orientation_history, last_orientation_value,
                          last_write_time, center_offset, frames>> ]_vars

\* Two frames were smoothed and logged, then a frame without a defined
\* orientation was shown.
C15_Witness ==
  /\ pc = "main"
  /\ display = "frame"
  /\ frames = 2
  /\ Len(orientation_history) = 2
  /\ Len(csv_rows) = 2
  /\ last_orientation_value = 14 * Cent

\* The defined orientations of the frames of LongSpec.
LongValues == { OrientationOf[lm] : lm \in LongLandmarkSets } \ {None}

\* C16: calibration leaves the smoothing window as it was when 'c' was read;
\* every processed frame adds one value computed with the offset then in
\* effect; once five frames were processed after a calibration every value
\* in the window was computed with the new offset; and before that, in a
\* session whose only calibration moved the offset from 0 to 0.10 after at
\* least one frame, the oldest value of the window was computed with the old
\* offset and the window's sum is not what fresh values alone would give.
C16_WindowSurvivesCalibration ==
  /\ [][ (pc \in {"awaiting", "sampling"} \/ (pc = "main" /\ pc' = "awaiting"))
           => UNCHANGED orientation_history ]_vars
  /\ [][ ProcessedFrame
           => /\ orientation_history'[Len(orientation_history')] + center_offset
                   \in LongValues
              /\ center_offset' = center_offset ]_vars
  /\ [](since_calibration >= WindowSize
           => \A i \in 1..Len(orientation_history) :
                orientation_history[i] + center_offset \in LongValues)
  /\ []((/\ pc = "main"
          /\ calibrations = 1
          /\ center_offset = 10 * Cent
          /\ frames > since_calibration
          /\ since_calibration < WindowSize)
           => /\ orientation_history[1] \in LongValues
              /\ SumSeq(orientation_history) # 0)

\* Four frames after the calibration the window still holds the value that
\* was computed before it.
C16_Witness ==
  /\ pc = "main"
  /\ calibrations = 1
  /\ since_calibration = 4
  /\ center_offset = 10 * Cent
  /\ orientation_history = <<10 * Cent, 0, 0, 0, 0>>

\* C17: from the frame on which 'c' is read until calibration returns, no
\* row is appended, the smoothing window and the gate's last value and last
\* write time do not change and no frame is processed by the main loop
\* (the frame that carried 'c' included); and while a calibration runs no
\* other calibration starts.
C17_CalibrationExcludesLogging ==
  [][ (pc \in {"awaiting", "sampling"} \/ (pc = "main" /\ pc' = "awaiting"))
        => /\ UNCHANGED <<csv_rows, orientation_history, last_orientation_value,
                          last_write_time, frames, display>>
           /\ pc \in {"awaiting", "sampling"} => calibrations' = calibrations ]_vars

\* A calibration is half way through its readings in a session that has
\* already smoothed and logged two frames.
C17_Witness ==
  /\ pc = "sampling"
  /\ center_readings = 5
  /\ calibrations = 1
  /\ Len(orientation_history) = 2
  /\ Len(csv_rows) = 2

\* -1.0 <= x <= 1.0
InRange(x) == 0 - One <= x /\ x <= One

\* C18: every defined value of the estimator lies in [-1, 1] (seen where it
\* is used: the value added to the sum of a calibration, and the value from
\* which the offset was subtracted in the main loop); so does every offset;
\* and every row of the orientation log holds an orientation between -1.00
\* and 1.00, as does the value the gate remembers, whatever the offset.
C18_RangeInvariant ==
  /\ [][ \A frame \in ExtremeFrames :
            (FrameOrientation(frame) # None
               /\ (MainFrame(frame) \/ SamplingFrame(frame)))
              => InRange(FrameOrientation(frame)) ]_vars
  /\ [][ (pc = "sampling" /\ pc' = "sampling")
           => InRange(sum_orientation' - sum_orientation) ]_vars
  /\ [][ ProcessedFrame
           => InRange(orientation_history'[Len(orientation_history')]
                        + center_offset) ]_vars
  /\ [](InRange(center_offset))
  /\ [](\A i \in 1..Len(csv_rows) :
          csv_rows[i].orientation \in (0 - 100)..100)
  /\ [](last_orientation_value # None => InRange(last_orientation_value))

\* The session was calibrated on the far left (offset -1.0) and a frame on
\* the far right followed: 1.0 - (-1.0) = 2.0 is in the window and 1.00 in
\* the log.
C18_Witness ==
  /\ pc = "main"
  /\ center_offset = 0 - One
  /\ orientation_history = <<2 * One>>
  /\ last_orientation_value = One
  /\ Len(csv_rows) = 1
  /\ csv_rows[1].orientation = 100

\* C19: the sampling phase is left only by the tenth accepted reading or by
\* a failed read, and each of the two leaves it; a frame that is not the
\* tenth accepted one (its orientation is undefined, or fewer than nine were
\* accepted before it) keeps the phase going, an undefined one without
\* changing the count; the phase never holds ten readings; and when frames
\* with a defined orientation keep arriving the phase ends.
C19_SamplingTermination ==
  /\ [][ (pc = "sampling" /\ pc' # "sampling")
           => \/ /\ center_readings = ReadingsWanted - 1
                 /\ pc' = "main"
                 /\ \E frame \in ExtremeDefinedFrames :
                      ReadingsWanted * center_offset'
                        = sum_orientation + FrameOrientation(frame)
              \/ SamplingReadFail ]_vars
  /\ [][ SamplingReadFail => pc' # "sampling" ]_vars
  /\ [][ \A frame \in ExtremeFrames :
            SamplingFrame(frame)
              => IF FrameOrientation(frame) = None
                 THEN pc' = "sampling" /\ center_readings' = center_readings
                 ELSE IF center_readings < ReadingsWanted - 1
                 THEN pc' = "sampling" /\ center_readings' = center_readings + 1
                 ELSE pc' = "main" ]_vars
  /\ [](pc = "sampling" => center_readings < ReadingsWanted)
  /\ (pc = "sampling") ~> (pc # "sampling")

\* Nine readings were accepted (five on the far right, four on the far
\* left): the next frame with a defined orientation ends the phase.
C19_Witness ==
  /\ pc = "sampling"
  /\ center_readings = 9
  /\ sum_orientation = One

\* C20: a frame whose orientation is defined (the division of line 45 was
\* reached) has a nose tip at positive total distance from the two face
\* edges; the window is never empty after a value was added to it (line
\* 69); and calibration returns an offset only when at least one reading
\* was accepted (line 156), a sampling phase that ends without one leaving
\* the offset alone.
C20_NoDivisionByZero ==
  [][ /\ \A frame \in LongFrames :
           ( /\ FrameOrientation(frame) # None
             /\ MainFrame(frame) \/ SamplingFrame(frame) )
             => DistLeft(frame.faces[1]) + DistRight(frame.faces[1]) > 0
      /\ ProcessedFrame => Len(orientation_history') >= 1
      /\ (pc = "sampling" /\ pc' = "main") => center_readings >= 1
      /\ (pc = "sampling" /\ pc' # "sampling" /\ center_readings = 0)
           => /\ pc' = "awaiting"
              /\ center_offset' = center_offset ]_vars

\* An offset was computed from the accepted readings, and a frame whose
\* orientation is defined has since been smoothed in a window of one value.
C20_Witness ==
  /\ pc = "main"
  /\ calibrations = 1
  /\ center_offset = 10 * Cent
  /\ MsgOffset \in stdout
  /\ Len(orientation_history) = 1
  /\ frames = 1

\* C21: while capture2 runs and after it has ended by itself, the ECG log
\* holds one row for each valid ECG line that has arrived, in arrival order
\* and with that line's value, the IMU log one row for each valid IMU line,
\* in arrival order and with that line's six values, and ecg_count and
\* imu_count are the numbers of rows of the two logs.
C21_DemuxOrderAndCount ==
  leg_pc # "killed"
    => /\ Len(ecg_file) = Len(ecg_arrived)
       /\ \A i \in 1..Len(ecg_file) :
            /\ ValidECG(ecg_arrived[i])
            /\ ecg_file[i][2] = IntValue(FieldsOf(ecg_arrived[i])[2])
       /\ Len(imu_file) = Len(imu_arrived)
       /\ \A i \in 1..Len(imu_file) :
            /\ ValidIMU(imu_arrived[i])
            /\ \A k \in 2..7 :
                 imu_file[i][k] = FloatValue(FieldsOf(imu_arrived[i])[k])
       /\ ecg_count = Len(ecg_file)
       /\ imu_count = Len(imu_file)

====
